---- MODULE Spec2Model ----
(***************************************************************************)
(* banco_demo: the table materializer (main.py) and the re-keying          *)
(* transformation (transformation.py), as state machines.                  *)
(*                                                                         *)
(* The Spark session, the catalog and the storage paths are the            *)
(* environment.  The model records the calls the program issues to the     *)
(* engine (createDataFrame, tableExists, REFRESH TABLE, write) with what   *)
(* the program passes to them.  main.py hands "mode" and "format" to the   *)
(* writer as keys of .options(...) and never calls .mode() or .format():   *)
(* they are recorded as the options requested, and the writer keeps the    *)
(* save mode it starts with, errorifexists, under which the write creates  *)
(* a target that does not exist and is refused for one that does.  save()  *)
(* also refuses a bucketed writer.  A call that raises leaves the target   *)
(* as it was.  Nothing but main.py changes the catalog or the paths.       *)
(*                                                                         *)
(* All runs use the same database (dbname).                                *)
(*                                                                         *)
(* Strings the program parses or builds (the `tabelas` list, the section   *)
(* names, the output paths) are sequences of Unicode code points, so that  *)
(* split, strip and concatenation are computed.                            *)
(***************************************************************************)
EXTENDS Integers, Sequences, FiniteSets, TLC

VARIABLES
    \* ---- main.py ----
    pc,          \* position of main(): "start","session","database","tables","loop","exited"
    run,         \* number of the current invocation of main.py (1..MaxRuns)
    config,      \* the ConfigParser object returned by carregar_configuracao
    tabelas,     \* main(): the list config['DEFAULT']['tabelas'].split(',')
    idx,         \* main(): position of the for loop in tabelas (1-based)
    procLog,     \* per loop iteration of this run: [tabela, resultado]
    lastCall,    \* the last call of criar_ou_atualizar_tabela: inputs, engine calls, outcome
    catalog,     \* the metastore: table name -> [existe, dados]; dados is the
                 \* sequence of batches the table holds, each with the "mode"
                 \* option its write was requested with
    files,       \* the storage paths f"{base_path}{nome_tabela}" -> sequence of
                 \* batches, each with the run that wrote it
    exitCode,    \* exit code of the process, -1 while running
    mainErro,    \* the step of main() whose exception reached main's except, "-" if none
    \* ---- transformation.py ----
    rpc,                 \* position of main(): "start","loaded","repeated","updated","saved",
                         \* or "error" once an exception has ended it
    clientes,            \* table clientes: the sequence of id_usuario keys
    transacoes_cartao,   \* table transacoes_cartao: the sequence of fact rows
    clientes_repeated,   \* result of repeat_clientes: the key pool
    updated_transacoes   \* result of update_transacoes_cartao: the joined rows

mvars == <<pc, run, config, tabelas, idx, procLog, lastCall, catalog, files, exitCode,
          mainErro>>
rvars == <<rpc, clientes, transacoes_cartao, clientes_repeated, updated_transacoes>>
vars == <<mvars, rvars>>

\* ------------------------------------------------------------------ bounds
MaxRuns == 2        \* invocations of main.py over the same catalog
MaxDim == 2         \* rows of clientes in the join model
MaxFact == 2        \* rows of transacoes_cartao in the join model
MaxDimCount == 4    \* rows of clientes when only the key pool is built
MaxFactCount == 12  \* rows of transacoes_cartao when only the key pool is built
RandDen == 2        \* rand() is one of 0/RandDen .. (RandDen-1)/RandDen

\* ------------------------------------------------------------------ strings
\* The separator of split(','): the code point of ",".
Comma == 44

\* The section [storage] of the configuration: "storage".
StorageSection == <<115, 116, 111, 114, 97, 103, 101>>

\* The sections that hold the settings of a table: "c" (clientes) and "t"
\* (transacoes_cartao).
TableNames == {<<99>>, <<116>>}

\* config.sections() of a configuration with a [storage] section: every
\* section but DEFAULT.
Sections == TableNames \cup {StorageSection}

RECURSIVE SplitComma(_)
\* str.split(','): the pieces between commas; '' gives [''].
SplitComma(s) ==
    IF \A i \in 1..Len(s) : s[i] # Comma
    THEN <<s>>
    ELSE LET k == CHOOSE i \in 1..Len(s) :
                      s[i] = Comma /\ \A j \in 1..(i-1) : s[j] # Comma
         IN <<SubSeq(s, 1, k-1)>> \o SplitComma(SubSeq(s, k+1, Len(s)))

\* The characters str.strip() removes: \t \n \x0b \x0c \r, \x1c-\x1f, space,
\* \x85, \xa0 and the Unicode spaces U+1680, U+2000-U+200A, U+2028, U+2029,
\* U+202F, U+205F, U+3000.
Whitespace ==
    {9, 10, 11, 12, 13, 28, 29, 30, 31, 32, 133, 160, 5760} \cup (8192..8202)
        \cup {8232, 8233, 8239, 8287, 12288}

RECURSIVE Strip(_)
\* str.strip(): leading and trailing whitespace removed.
Strip(s) ==
    IF s = <<>> THEN s
    ELSE IF Head(s) \in Whitespace THEN Strip(Tail(s))
    ELSE IF s[Len(s)] \in Whitespace THEN Strip(SubSeq(s, 1, Len(s)-1))
    ELSE s

\* ------------------------------------------------------------------ configuration
\* Values of DEFAULT.tabelas the runs are tried with: "", "c\u2003, \t\x0bc"
\* (c twice, with whitespace around the names), "x,c" (x is no section) and
\* "storage,c".
TabelasValues ==
    { <<>>,
      <<99, 8195, 44, 32, 9, 11, 99>>,
      <<120, 44, 99>>,
      StorageSection \o <<44, 99>> }

\* Values of num_buckets and num_records the table sections are tried with.
BucketCounts == {4}
RecordCounts == {100}

StorageTypes == {"S3", "ADLS", "GCS"}
Formatos == {"csv"}

\* The value of base_path in [storage] when the option is there: "b/".
BasePath == <<98, 47>>

\* str(None), which the f-string of output_path makes of a base_path that is
\* not there: "None".
NoneStr == <<78, 111, 110, 101>>

\* The configurations carregar_configuracao can return.  base_path: the
\* section [storage] has the option base_path.  A configuration without the
\* section [storage] has neither a storage_type nor a base_path.  The table
\* options of a section can be its own or those of DEFAULT.  With a storage
\* kind that is not supported, base_path is never read and is taken as there.
Configs ==
    { c \in [ apenas_arquivos : BOOLEAN,
              formato_arquivo : Formatos,
              storage_type    : StorageTypes,
              base_path       : BOOLEAN,
              tabelas         : TabelasValues,
              sections        : {Sections, TableNames} ] :
        /\ StorageSection \notin c.sections => (c.storage_type = "S3" /\ ~c.base_path)
        /\ c.storage_type = "GCS" => c.base_path }

NoConfig == [ apenas_arquivos |-> FALSE, formato_arquivo |-> "csv",
              storage_type |-> "S3", base_path |-> FALSE, tabelas |-> <<>>,
              sections |-> {} ]

\* ------------------------------------------------------------------ engine calls
\* target: the table name or the path the call is about; mode, formato: the
\* values of the options "mode" and "format" passed to the writer; save_mode:
\* the save mode the writer has when it writes.
EngineCall(op, sink, target, mode, formato, save_mode, layout, buckets, rows, ok) ==
    [ op |-> op, sink |-> sink, target |-> target, mode |-> mode, formato |-> formato,
      save_mode |-> save_mode, layout |-> layout, buckets |-> buckets,
      rows |-> rows, ok |-> ok ]

\* spark.createDataFrame(dados, schema=esquema).withColumn("data_execucao", ...)
CreateDataFrameCall(rows, ok) ==
    EngineCall("createDataFrame", "-", <<>>, "-", "-", "-", "-", 0, rows, ok)

TableExistsCall(nome_tabela, ok) ==
    EngineCall("tableExists", "catalog", nome_tabela, "-", "-", "-", "-", 0, 0, ok)

RefreshCall(nome_tabela, ok) ==
    EngineCall("refresh", "catalog", nome_tabela, "-", "-", "-", "-", 0, 0, ok)

\* The first statement of one materialization that raises for a reason outside
\* the configuration modelled here, if any, in the order of the code: the
\* schema file is missing, the schema file is no JSON, the JSON is no schema, a
\* table option is missing from the section and from DEFAULT, a table option
\* is no integer / no boolean, gerar_dados raises, createDataFrame raises,
\* tableExists raises, REFRESH TABLE raises, the write raises.
Failures ==
    {"none", "schema", "schema_json", "schema_struct", "config", "config_value",
     "gerar_dados", "createDataFrame", "tableExists", "refresh", "write"}

\* The failures that end the call before the table options have been read.
BeforeOptions == {"schema", "schema_json", "schema_struct", "config", "config_value"}

\* What is recorded of one call of criar_ou_atualizar_tabela: the table
\* settings it read (0 and FALSE if it raised before), whether the table and
\* the path existed when it was called, the engine calls it issued, in order,
\* and the exception it raised ("-": none).
CallRecord(nome, num_records, particionamento, bucketing, num_buckets, existia, havia_arquivos, calls, erro) ==
    [ tabela |-> nome, num_records |-> num_records,
      particionamento |-> particionamento, bucketing |-> bucketing,
      num_buckets |-> num_buckets, existia |-> existia,
      havia_arquivos |-> havia_arquivos, calls |-> calls, erro |-> erro ]

NoCall == CallRecord(<<>>, 0, FALSE, FALSE, 0, FALSE, FALSE, <<>>, "-")

\* ------------------------------------------------------------------ main.py
\* utils.gerar_dados(nome_tabela, num_records): the numbers of rows the generator
\* can return.  Its code is not part of the sources: it is an opaque function
\* that is asked for num_records rows and returns a list, here of the requested
\* length or of another one.
gerar_dados(nome_tabela, num_records) == {num_records, num_records + 1}

\* tabela_existe: spark.catalog.tableExists(nome_tabela).
tabela_existe(cat, nome_tabela) == cat[nome_tabela].existe

\* Mutant: every storage kind is accepted.
StorageSupported_Any(storage) == TRUE

\* The storage kinds criar_ou_atualizar_tabela accepts (the if/elif on storage).
StorageSupported(storage) == storage \in {"S3", "ADLS"}

\* Mutant: bucketing is tested before particionamento.
Layout_BucketFirst(particionamento, bucketing) ==
    IF bucketing THEN "BucketByKey"
    ELSE IF particionamento THEN "PartitionByDate"
    ELSE "None"

\* The if particionamento / elif bucketing / else chain, the same in both branches.
Layout(particionamento, bucketing) ==
    IF particionamento THEN "PartitionByDate"
    ELSE IF bucketing THEN "BucketByKey"
    ELSE "None"

\* write_mode of the catalog branch, which becomes write_options["mode"].
CatalogWriteMode(existe) == IF ~existe THEN "overwrite" ELSE "append"

\* write_options["mode"] of the files branch.
FileWriteMode == "overwrite"

\* write_options["format"]: fixed for tables, configured for files.
WriteFormat(apenas_arquivos, formato_arquivo) ==
    IF apenas_arquivos THEN formato_arquivo ELSE "parquet"

\* The save mode of df.write in every write of main.py: .mode() is never
\* called, so it is the one a DataFrameWriter starts with.
SaveMode == "errorifexists"

\* output_path = f"{base_path}{nome_tabela}" of the files branch.
OutputPath(cfg, nome_tabela) ==
    (IF cfg.base_path THEN BasePath ELSE NoneStr) \o nome_tabela

\* The paths main.py can write to.
Paths == { b \o n : b \in {BasePath, NoneStr}, n \in Sections }

\* The statements issued before the write in the catalog branch.
CatalogPreWrite(nome_tabela, write_mode) ==
    IF write_mode = "append"
    THEN <<TableExistsCall(nome_tabela, TRUE), RefreshCall(nome_tabela, TRUE)>>
    ELSE <<TableExistsCall(nome_tabela, TRUE)>>

\* df.write[.partitionBy|.bucketBy].options(**write_options).save|saveAsTable
WriteCall(sink, target, mode, formato, particionamento, bucketing, num_buckets, rows, ok) ==
    EngineCall("write", sink, target, mode, formato, SaveMode,
               Layout(particionamento, bucketing),
               IF Layout(particionamento, bucketing) = "BucketByKey" THEN num_buckets ELSE 0,
               rows, ok)

\* save / saveAsTable refuses the write: the target exists and the save mode
\* is errorifexists, or save(path) is called on a bucketed writer.
WriteRefused(sink, save_mode, layout, existe) ==
    \/ save_mode = "errorifexists" /\ existe
    \/ sink = "file" /\ layout = "BucketByKey"

\* The sink's effect of a write that is not refused on one target.
ApplyWrite(old, save_mode, batch) ==
    IF save_mode = "append" THEN old \o <<batch>> ELSE <<batch>>

\* Result of one call: the engine calls issued, the exception raised, and the
\* catalog and the paths it leaves.
Outcome(calls, erro, cat, fls) ==
    [ calls |-> calls, erro |-> erro, catalog |-> cat, files |-> fls ]

\* criar_ou_atualizar_tabela(spark, nome_tabela, config) on the catalog cat and the
\* paths fls.  gerados: rows returned by gerar_dados; falha: the statement that
\* raises, if any (see Failures); batch: the identity of the batch a successful
\* write stores.
criar_ou_atualizar_tabela(nome, cfg, num_records, particionamento, bucketing, num_buckets, gerados, falha, cat, fls, batch) ==
    LET formato == WriteFormat(cfg.apenas_arquivos, cfg.formato_arquivo)
        layout == Layout(particionamento, bucketing)
        df(ok) == <<CreateDataFrameCall(gerados, ok)>>
    IN
    IF falha = "schema"
    THEN Outcome(<<>>, "FileNotFoundError", cat, fls)
    ELSE IF falha = "schema_json"
    THEN Outcome(<<>>, "JSONDecodeError", cat, fls)
    ELSE IF falha = "schema_struct"
    THEN Outcome(<<>>, "KeyError", cat, fls)
    ELSE IF falha = "config"
    THEN Outcome(<<>>, "NoOptionError", cat, fls)
    ELSE IF falha = "config_value"
    THEN Outcome(<<>>, "ValueError", cat, fls)
    ELSE IF falha = "gerar_dados"
    THEN Outcome(<<>>, "GeneratorError", cat, fls)
    ELSE IF falha = "createDataFrame"
    THEN Outcome(df(FALSE), "TypeError", cat, fls)
    ELSE IF StorageSection \notin cfg.sections
    THEN Outcome(df(TRUE), "KeyError", cat, fls)
    ELSE IF ~StorageSupported(cfg.storage_type)
    THEN Outcome(df(TRUE), "ValueError", cat, fls)
    ELSE IF cfg.storage_type = "ADLS" /\ ~cfg.base_path
    THEN Outcome(df(TRUE), "KeyError", cat, fls)
    ELSE IF cfg.apenas_arquivos
    THEN LET output_path == OutputPath(cfg, nome)
             w(ok) == WriteCall("file", output_path, FileWriteMode, formato,
                                particionamento, bucketing, num_buckets, gerados, ok)
         IN IF falha = "write"
            THEN Outcome(df(TRUE) \o <<w(FALSE)>>, "WriteError", cat, fls)
            ELSE IF WriteRefused("file", SaveMode, layout, fls[output_path] # <<>>)
            THEN Outcome(df(TRUE) \o <<w(FALSE)>>, "AnalysisException", cat, fls)
            ELSE Outcome(df(TRUE) \o <<w(TRUE)>>, "-", cat,
                         [fls EXCEPT ![output_path] = ApplyWrite(@, SaveMode, batch)])
    ELSE IF falha = "tableExists"
    THEN Outcome(df(TRUE) \o <<TableExistsCall(nome, FALSE)>>,
                 "AnalysisException", cat, fls)
    ELSE LET write_mode == CatalogWriteMode(tabela_existe(cat, nome))
             pre == df(TRUE) \o CatalogPreWrite(nome, write_mode)
             w(ok) == WriteCall("catalog", nome, write_mode, formato,
                                particionamento, bucketing, num_buckets, gerados, ok)
         IN IF falha = "refresh" /\ write_mode = "append"
            THEN Outcome(df(TRUE) \o <<TableExistsCall(nome, TRUE), RefreshCall(nome, FALSE)>>,
                         "AnalysisException", cat, fls)
            ELSE IF falha = "write"
            THEN Outcome(pre \o <<w(FALSE)>>, "WriteError", cat, fls)
            ELSE IF WriteRefused("catalog", SaveMode, layout, tabela_existe(cat, nome))
            THEN Outcome(pre \o <<w(FALSE)>>, "AnalysisException", cat, fls)
            ELSE Outcome(pre \o <<w(TRUE)>>, "-",
                         [cat EXCEPT ![nome] =
                             [existe |-> TRUE,
                              dados |-> ApplyWrite(@.dados, SaveMode,
                                                   [mode |-> write_mode])]],
                         fls)

\* ---- main() ----
\* carregar_configuracao: returns a configuration, or raises (missing or unreadable file).
LoadConfig ==
    /\ pc = "start"
    /\ \/ \E c \in Configs :
            /\ config' = c
            /\ pc' = "session"
            /\ UNCHANGED <<exitCode, mainErro>>
       \/ /\ pc' = "exited"
          /\ exitCode' = 1
          /\ mainErro' = "config"
          /\ UNCHANGED config
    /\ UNCHANGED <<run, tabelas, idx, procLog, lastCall, catalog, files, rvars>>

\* SparkSession.builder...getOrCreate(), then the read of apenas_arquivos,
\* which raises ValueError for a value that is no boolean.
InitSession ==
    /\ pc = "session"
    /\ \/ /\ pc' = IF config.apenas_arquivos THEN "tables" ELSE "database"
          /\ UNCHANGED <<exitCode, mainErro>>
       \/ /\ pc' = "exited"
          /\ exitCode' = 1
          /\ mainErro' \in {"session", "apenas_arquivos"}
    /\ UNCHANGED <<run, config, tabelas, idx, procLog, lastCall, catalog, files, rvars>>

\* CREATE DATABASE IF NOT EXISTS / USE, only when tables are written.
UseDatabase ==
    /\ pc = "database"
    /\ \/ /\ pc' = "tables"
          /\ UNCHANGED <<exitCode, mainErro>>
       \/ /\ pc' = "exited"
          /\ exitCode' = 1
          /\ mainErro' = "database"
    /\ UNCHANGED <<run, config, tabelas, idx, procLog, lastCall, catalog, files, rvars>>

\* tabelas = config['DEFAULT'].get('tabelas', '').split(','); the list is never
\* empty, so the `if tabelas:` test always takes the loop.
SplitTabelas ==
    /\ pc = "tables"
    /\ tabelas' = SplitComma(config.tabelas)
    /\ idx' = 1
    /\ pc' = "loop"
    /\ UNCHANGED <<run, config, procLog, lastCall, catalog, files, exitCode, mainErro, rvars>>

\* Mutant: the exception of a table is not caught in the loop and reaches
\* main's own except.
ExceptTabela_Propagates(erro) ==
    IF erro = "-"
    THEN [pc |-> "loop", exitCode |-> -1, mainErro |-> "-"]
    ELSE [pc |-> "exited", exitCode |-> 1, mainErro |-> "tabela"]

\* The try/except around the call in the loop: whatever the call raised (erro)
\* is logged, and main stays in the loop.
ExceptTabela(erro) == [pc |-> "loop", exitCode |-> -1, mainErro |-> "-"]

\* One iteration of `for tabela in tabelas` for a name that is a section:
\* the call of criar_ou_atualizar_tabela inside try/except.
ProcessTabela ==
    /\ pc = "loop"
    /\ idx <= Len(tabelas)
    /\ LET tabela == Strip(tabelas[idx]) IN
       /\ tabela \in config.sections
       /\ \E num_records \in RecordCounts,
             particionamento \in BOOLEAN, bucketing \in BOOLEAN,
             num_buckets \in BucketCounts, falha \in Failures :
            \E gerados \in gerar_dados(tabela, num_records) :
               LET r == criar_ou_atualizar_tabela(tabela, config, num_records,
                            particionamento, bucketing, num_buckets, gerados, falha,
                            catalog, files, [run |-> run])
                   lidas == falha \notin BeforeOptions
               IN /\ lastCall' = CallRecord(tabela,
                                     IF lidas THEN num_records ELSE 0,
                                     lidas /\ particionamento,
                                     lidas /\ bucketing,
                                     IF lidas THEN num_buckets ELSE 0,
                                     catalog[tabela].existe,
                                     files[OutputPath(config, tabela)] # <<>>,
                                     r.calls, r.erro)
                  /\ catalog' = r.catalog
                  /\ files' = r.files
                  /\ procLog' = Append(procLog,
                         [tabela |-> tabela,
                          resultado |-> IF r.erro = "-" THEN "ok" ELSE "erro"])
                  /\ pc' = ExceptTabela(r.erro).pc
                  /\ exitCode' = ExceptTabela(r.erro).exitCode
                  /\ mainErro' = ExceptTabela(r.erro).mainErro
    /\ idx' = idx + 1
    /\ UNCHANGED <<run, config, tabelas, rvars>>

\* One iteration for a name without a section: a warning, nothing else.
SkipTabela ==
    /\ pc = "loop"
    /\ idx <= Len(tabelas)
    /\ Strip(tabelas[idx]) \notin config.sections
    /\ procLog' = Append(procLog, [tabela |-> Strip(tabelas[idx]), resultado |-> "sem_config"])
    /\ idx' = idx + 1
    /\ UNCHANGED <<pc, run, config, tabelas, lastCall, catalog, files, exitCode, mainErro, rvars>>

\* The loop is over: main returns and the process ends with status 0.
MainReturn ==
    /\ pc = "loop"
    /\ idx > Len(tabelas)
    /\ pc' = "exited"
    /\ exitCode' = 0
    /\ UNCHANGED <<run, config, tabelas, idx, procLog, lastCall, catalog, files, mainErro, rvars>>

\* The script is started again; the catalog and the paths persist.
NewRun ==
    /\ pc = "exited"
    /\ run < MaxRuns
    /\ run' = run + 1
    /\ pc' = "start"
    /\ config' = NoConfig
    /\ tabelas' = <<>>
    /\ idx' = 0
    /\ procLog' = <<>>
    /\ lastCall' = NoCall
    /\ exitCode' = -1
    /\ mainErro' = "-"
    /\ UNCHANGED <<catalog, files, rvars>>

RecIdle ==
    /\ rpc = "idle"
    /\ clientes = <<>>
    /\ transacoes_cartao = <<>>
    /\ clientes_repeated = <<>>
    /\ updated_transacoes = {}

InitMain ==
    /\ pc = "start"
    /\ run = 1
    /\ config = NoConfig
    /\ tabelas = <<>>
    /\ idx = 0
    /\ procLog = <<>>
    /\ lastCall = NoCall
    /\ catalog = [t \in Sections |-> [existe |-> FALSE, dados |-> <<>>]]
    /\ files = [p \in Paths |-> <<>>]
    /\ exitCode = -1
    /\ mainErro = "-"
    /\ RecIdle

NextMain ==
    \/ LoadConfig
    \/ InitSession
    \/ UseDatabase
    \/ SplitTabelas
    \/ ProcessTabela
    \/ SkipTabela
    \/ MainReturn
    \/ NewRun

SpecMain == InitMain /\ [][NextMain]_vars

\* ------------------------------------------------------------------ transformation.py
\* The id_usuario of the i-th row of clientes.
KeyOf(i) == 100 + i

\* Table clientes with d rows (the column id_usuario).
ClientesTable(d) == [i \in 1..d |-> KeyOf(i)]

\* Table transacoes_cartao with f rows; 0 is the id_usuario the generator gave,
\* which is no key of clientes.
TransacoesTable(f) == {[id_transacao |-> i, id_usuario |-> 0] : i \in 1..f}

\* Mutant: the + 1 is missing.
RepetitionFactor_NoPlusOne(clientes_count, transacoes_count) ==
    transacoes_count \div clientes_count

\* repetition_factor of repeat_clientes (the branch clientes_count < transacoes_count).
RepetitionFactor(clientes_count, transacoes_count) ==
    (transacoes_count \div clientes_count) + 1

\* flatMap(lambda x: [x] * repetition_factor): each row, repeated in place.
FlatMapRepeat(rows, repetition_factor) ==
    [i \in 1..(Len(rows) * repetition_factor) |-> rows[((i - 1) \div repetition_factor) + 1]]

\* withColumn("repeat", rand()).repartition("repeat"): the rows in any order.
Shuffles(rows) ==
    { [i \in 1..Len(rows) |-> rows[p[i]]] :
        p \in { q \in [1..Len(rows) -> 1..Len(rows)] :
                  \A a, b \in 1..Len(rows) : q[a] = q[b] => a = b } }

\* The join condition RAND() < 1.0 / (SELECT COUNT(*) FROM clientes_repeated),
\* for the draw k/RandDen and a pool of n rows.  For an empty pool the quotient
\* is NULL and the condition accepts nothing.
JoinAccepts(k, n) == n > 0 /\ k * n < RandDen

\* Mutant: the select list takes id_usuario from t instead of c.
JoinedRow_FactKey(t, j, pool) == [t |-> t, c |-> j, id_usuario |-> t.id_usuario]

\* The row the join emits for fact row t and the j-th row of the pool.
JoinedRow(t, j, pool) == [t |-> t, c |-> j, id_usuario |-> pool[j]]

load_tables ==
    /\ rpc = "start"
    /\ rpc' = "loaded"
    /\ UNCHANGED <<clientes, transacoes_cartao, clientes_repeated, updated_transacoes, mvars>>

repeat_clientes ==
    /\ rpc = "loaded"
    /\ LET clientes_count == Len(clientes)
           transacoes_count == Cardinality(transacoes_cartao)
       IN IF clientes_count < transacoes_count
          THEN IF clientes_count = 0
               THEN \* ZeroDivisionError in transacoes_count // clientes_count
                    /\ rpc' = "error"
                    /\ UNCHANGED clientes_repeated
               ELSE /\ \E shuffled \in Shuffles(clientes) :
                         clientes_repeated' =
                             FlatMapRepeat(shuffled,
                                 RepetitionFactor(clientes_count, transacoes_count))
                    /\ rpc' = "repeated"
          ELSE /\ clientes_repeated' = clientes
               /\ rpc' = "repeated"
    /\ UNCHANGED <<clientes, transacoes_cartao, updated_transacoes, mvars>>

update_transacoes_cartao ==
    /\ rpc = "repeated"
    /\ LET n == Len(clientes_repeated)
           pairs == transacoes_cartao \X (1..n)
       IN \E rand \in [pairs -> 0..(RandDen - 1)] :
             updated_transacoes' =
                 { JoinedRow(pr[1], pr[2], clientes_repeated) :
                     pr \in { q \in pairs : JoinAccepts(rand[q], n) } }
    /\ rpc' = "updated"
    /\ UNCHANGED <<clientes, transacoes_cartao, clientes_repeated, mvars>>

\* write.mode("overwrite").saveAsTable("transacoes_cartao")
save_updated_transacoes ==
    /\ rpc = "updated"
    /\ transacoes_cartao' = updated_transacoes
    /\ rpc' = "saved"
    /\ UNCHANGED <<clientes, clientes_repeated, updated_transacoes, mvars>>

MainIdle ==
    /\ pc = "idle"
    /\ run = 0
    /\ config = NoConfig
    /\ tabelas = <<>>
    /\ idx = 0
    /\ procLog = <<>>
    /\ lastCall = NoCall
    /\ catalog = [t \in Sections |-> [existe |-> t \in TableNames, dados |-> <<>>]]
    /\ files = [p \in Paths |-> <<>>]
    /\ exitCode = -1
    /\ mainErro = "-"

InitRec ==
    /\ MainIdle
    /\ rpc = "start"
    /\ \E d \in 0..MaxDim : clientes = ClientesTable(d)
    /\ \E f \in 0..MaxFact : transacoes_cartao = TransacoesTable(f)
    /\ clientes_repeated = <<>>
    /\ updated_transacoes = {}

NextRec ==
    \/ load_tables
    \/ repeat_clientes
    \/ update_transacoes_cartao
    \/ save_updated_transacoes

\* transformation.py: main() over every pair of small tables.
SpecRec == InitRec /\ [][NextRec]_vars

InitPool ==
    /\ MainIdle
    /\ rpc = "start"
    /\ \E d \in 0..MaxDimCount : clientes = ClientesTable(d)
    /\ \E f \in 0..MaxFactCount : transacoes_cartao = TransacoesTable(f)
    /\ clientes_repeated = <<>>
    /\ updated_transacoes = {}

NextPool ==
    \/ load_tables
    \/ repeat_clientes

\* transformation.py up to the key pool, over larger tables.
SpecPool == InitPool /\ [][NextPool]_vars

\* ================================================================== properties
\* ---- helpers over the recorded call ----
Calls == lastCall.calls
WriteIdx == {i \in 1..Len(Calls) : Calls[i].op = "write"}
RefreshIdx == {i \in 1..Len(Calls) : Calls[i].op = "refresh"}
ExistsIdx == {i \in 1..Len(Calls) : Calls[i].op = "tableExists"}
\* The last call ended without exception after a write to the given sink.
Materialized(sink) ==
    /\ lastCall.erro = "-"
    /\ \E i \in WriteIdx : Calls[i].sink = sink /\ Calls[i].ok

\* The last call issued a write to the given sink that the engine did not
\* fail for a reason of its own.
WriteIssued(sink) ==
    /\ lastCall.erro # "WriteError"
    /\ \E i \in WriteIdx : Calls[i].sink = sink

\* C1 as stated: a write to a catalog table that did not exist when the call
\* began is requested with mode overwrite and the call issues no REFRESH TABLE;
\* a write to a table that existed is requested with mode append, after one
\* successful REFRESH TABLE and none after it; and the write is carried out in
\* that mode: unless the engine fails, the call ends without exception, and a
\* table that existed holds the batch written first and the appended one.
C1_Original ==
    /\ \A i \in WriteIdx :
          Calls[i].sink = "catalog" =>
             IF lastCall.existia
             THEN /\ Calls[i].mode = "append"
                  /\ \E j \in RefreshIdx : j < i /\ Calls[j].ok
                  /\ \A j \in RefreshIdx : j < i
                  /\ Cardinality(RefreshIdx) = 1
             ELSE /\ Calls[i].mode = "overwrite"
                  /\ RefreshIdx = {}
    /\ RefreshIdx # {} => lastCall.existia
    /\ WriteIssued("catalog") =>
          /\ lastCall.erro = "-"
          /\ catalog[lastCall.tabela].existe
          /\ lastCall.existia => Len(catalog[lastCall.tabela].dados) >= 2

\* C2 as stated: in files mode a call of criar_ou_atualizar_tabela issues no
\* tableExists and no REFRESH TABLE, the write is requested with mode
\* overwrite, and after a write that the engine did not fail the path holds
\* exactly the batch of this run, whatever it held before.  (A bucketed write,
\* which save() does not take, is left aside.)
C2_Original ==
    /\ \A i \in WriteIdx : Calls[i].sink = "file" => Calls[i].mode = "overwrite"
    /\ (pc = "loop" /\ config.apenas_arquivos) => ExistsIdx = {} /\ RefreshIdx = {}
    /\ \A i \in WriteIdx :
          (WriteIssued("file") /\ Calls[i].layout # "BucketByKey") =>
              files[Calls[i].target] = <<[run |-> run]>>

\* C3: every write, to a table or to a path, has the layout the two flags
\* give: PartitionByDate when particionamento is set (bucketing set or not),
\* BucketByKey with num_buckets buckets when only bucketing is set, None when
\* neither; a call issues at most one write, and exactly one when it succeeds.
C3_LayoutFromFlags ==
    /\ \A i \in WriteIdx :
          /\ lastCall.particionamento => Calls[i].layout = "PartitionByDate"
          /\ (~lastCall.particionamento /\ lastCall.bucketing) =>
                 Calls[i].layout = "BucketByKey" /\ Calls[i].buckets = lastCall.num_buckets
          /\ (~lastCall.particionamento /\ ~lastCall.bucketing) =>
                 Calls[i].layout = "None"
          /\ Calls[i].layout # "BucketByKey" => Calls[i].buckets = 0
    /\ Cardinality(WriteIdx) <= 1
    /\ (lastCall.tabela # <<>> /\ lastCall.erro = "-") => Cardinality(WriteIdx) = 1

\* C3 witness: both flags set, and the one write is partitioned by date.
C3_Witness ==
    /\ lastCall.particionamento
    /\ lastCall.bucketing
    /\ lastCall.erro = "-"
    /\ \E i \in WriteIdx : Calls[i].layout = "PartitionByDate" /\ Calls[i].sink = "file"

\* C7 as stated: a run whose configuration load and session start (database
\* selection included) succeeded ends with status 0 having attempted, i.e.
\* called criar_ou_atualizar_tabela for, every table named in tabelas, once
\* each and in order; status 1 only follows a failed load or start, with no
\* table touched.  (The empty name that an empty tabelas yields, and the name
\* of the section storage, name no table.)
C7_Original ==
    /\ (pc = "exited" /\ mainErro = "-") =>
          /\ exitCode = 0
          /\ Len(procLog) = Len(tabelas)
          /\ \A i \in 1..Len(procLog) :
                /\ procLog[i].tabela = Strip(tabelas[i])
                /\ procLog[i].tabela \notin {<<>>, StorageSection} =>
                       procLog[i].resultado \in {"ok", "erro"}
    /\ exitCode = 1 =>
          /\ pc = "exited"
          /\ mainErro \in {"config", "session", "apenas_arquivos", "database"}
          /\ procLog = <<>>

\* C7 amended: as above, except that an entry of tabelas that is no section of
\* the configuration is passed over with a warning instead of being attempted:
\* the loop visits every entry once, in order, calls
\* criar_ou_atualizar_tabela exactly for the entries that are a section (a
\* table's or not, such as storage), goes on after a failed call, and the run
\* ends with status 0.  Status 1 follows
\* exactly a failure of the configuration load, of the session start, of the
\* read of apenas_arquivos or of the database selection, and then no entry has
\* been visited.
C7_Amended ==
    /\ pc = "loop" => Len(procLog) = idx - 1
    /\ \A i \in 1..Len(procLog) :
          /\ i <= Len(tabelas)
          /\ procLog[i].tabela = Strip(tabelas[i])
          /\ procLog[i].resultado = "sem_config" <=> Strip(tabelas[i]) \notin config.sections
    /\ (pc = "exited" /\ mainErro = "-") =>
          /\ exitCode = 0
          /\ Len(procLog) = Len(tabelas)
          /\ tabelas = SplitComma(config.tabelas)
    /\ exitCode = 1 <=>
          (pc = "exited" /\ mainErro \in {"config", "session", "apenas_arquivos", "database"})
    /\ exitCode = 1 => procLog = <<>>
    /\ exitCode \in {-1, 0, 1}

\* C7 witness: a finished run in which the first table failed and the second
\* was still materialized.
C7_Witness ==
    /\ pc = "exited"
    /\ exitCode = 0
    /\ Len(procLog) = 2
    /\ procLog[1].resultado = "erro"
    /\ procLog[2].resultado = "ok"

\* C8: an iteration of the loop that calls criar_ou_atualizar_tabela while the
\* storage kind is neither S3 nor ADLS ends in an exception for that table,
\* issues no tableExists, no REFRESH TABLE and no write (nothing but the
\* createDataFrame that precedes the storage test) and leaves the catalog and
\* the paths unchanged; a call that gets as far as the storage test, i.e. whose
\* createDataFrame succeeded, ends in the ValueError of that test.
C8_UnsupportedStorage ==
    [][ ( /\ pc = "loop"
          /\ idx <= Len(tabelas)
          /\ idx' = idx + 1
          /\ Strip(tabelas[idx]) \in config.sections
          /\ StorageSection \in config.sections
          /\ config.storage_type \notin {"S3", "ADLS"} )
        => ( /\ lastCall'.tabela = Strip(tabelas[idx])
             /\ lastCall'.erro \notin {"-", "AnalysisException", "WriteError"}
             /\ \A i \in 1..Len(lastCall'.calls) : lastCall'.calls[i].op = "createDataFrame"
             /\ Len(lastCall'.calls) <= 1
             /\ (Len(lastCall'.calls) = 1 /\ lastCall'.calls[1].ok) =>
                    lastCall'.erro = "ValueError"
             /\ catalog' = catalog
             /\ files' = files
             /\ procLog'[idx].resultado = "erro" ) ]_vars

\* C8 witness: the call was refused for the storage kind, after createDataFrame
\* and before anything else, for a table that an earlier run had created.
C8_Witness ==
    /\ config.storage_type = "GCS"
    /\ lastCall.erro = "ValueError"
    /\ Len(Calls) = 1
    /\ lastCall.existia
    /\ catalog[lastCall.tabela].existe

\* C10 as stated: a write carries exactly num_records rows (a batch of another
\* size is refused before any write is issued).
C10_RowCountValidated ==
    \A i \in WriteIdx : Calls[i].rows = lastCall.num_records

\* ---- transformation.py ----
KeySet == {clientes[i] : i \in 1..Len(clientes)}
Ceil(a, b) == (a + b - 1) \div b
TimesInPool(key) ==
    Cardinality({i \in 1..Len(clientes_repeated) : clientes_repeated[i] = key})

\* C4 as stated: for non-empty clientes and transacoes_cartao the joined table
\* has one row per fact row: as many rows as transacoes_cartao, each fact row
\* exactly once.
C4_RowCountPreserved ==
    (rpc = "updated" /\ clientes # <<>> /\ transacoes_cartao # {}) =>
        /\ Cardinality(updated_transacoes) = Cardinality(transacoes_cartao)
        /\ \A t \in transacoes_cartao :
              Cardinality({r \in updated_transacoes : r.t = t}) = 1

\* C5: every row of the key pool and every joined row (also once saved as the
\* new transacoes_cartao) carries an id_usuario that is a key of clientes.
C5_KeysFromDimension ==
    /\ \A i \in 1..Len(clientes_repeated) : clientes_repeated[i] \in KeySet
    /\ \A r \in updated_transacoes : r.id_usuario \in KeySet
    /\ rpc = "saved" => \A r \in transacoes_cartao : r.id_usuario \in KeySet

\* C5 witness: the pool was replicated (it is longer than clientes) and the
\* join emitted rows.
C5_Witness ==
    /\ rpc = "updated"
    /\ Len(clientes_repeated) > Len(clientes)
    /\ updated_transacoes # {}

\* C6 as stated: with clientes empty the transformation ends in an error,
\* whatever the size of transacoes_cartao; with clientes non-empty and
\* transacoes_cartao empty it completes with an empty result.
C6_EmptyDimensionFails ==
    /\ (clientes = <<>> /\ rpc \notin {"start", "loaded"}) => rpc = "error"
    /\ (clientes # <<>> /\ transacoes_cartao = {} /\ rpc \in {"updated", "saved"}) =>
           updated_transacoes = {}
    /\ (clientes # <<>> /\ transacoes_cartao = {}) => rpc # "error"

\* C9 as stated, for transacoes_count > 0: for clientes_count > 0 each key is
\* in the pool ceil(transacoes_count / clientes_count) times, so the pool has
\* clientes_count * ceil(transacoes_count / clientes_count) rows.
C9_Original ==
    (rpc = "repeated" /\ clientes # <<>> /\ transacoes_cartao # {}) =>
        LET d == Len(clientes)
            f == Cardinality(transacoes_cartao)
        IN /\ \A key \in KeySet : TimesInPool(key) = Ceil(f, d)
           /\ Len(clientes_repeated) = d * Ceil(f, d)
           /\ Len(clientes_repeated) >= f

\* C9 amended: for clientes_count > 0 each key is in the pool
\* floor(transacoes_count / clientes_count) + 1 times when clientes_count <
\* transacoes_count, and once (the table as it is) otherwise; the pool has
\* clientes_count times that many rows, never fewer than transacoes_count
\* (3 and 10 give 4 and 12).  The factor is ceil(transacoes_count /
\* clientes_count) except when transacoes_count is 0 or a multiple of
\* clientes_count larger than it, where it is one more.
C9_Amended ==
    (rpc = "repeated" /\ clientes # <<>>) =>
        LET d == Len(clientes)
            f == Cardinality(transacoes_cartao)
            k == IF d < f THEN (f \div d) + 1 ELSE 1
        IN /\ \A key \in KeySet : TimesInPool(key) = k
           /\ Len(clientes_repeated) = d * k
           /\ Len(clientes_repeated) >= f
           /\ (d = 3 /\ f = 10) => (k = 4 /\ Len(clientes_repeated) = 12)
           /\ k = (IF f = 0 \/ (f > d /\ f % d = 0) THEN Ceil(f, d) + 1 ELSE Ceil(f, d))

\* C9 witness: 3 keys and 10 fact rows give a pool of 12 rows.
C9_Witness ==
    /\ rpc = "repeated"
    /\ Len(clientes) = 3
    /\ Cardinality(transacoes_cartao) = 10
    /\ Len(clientes_repeated) = 12

====
